---- MODULE Spec2Model ----
(***************************************************************************)
(* Model of MultiSiteJobScraper (src/main.py): the retrying GET             *)
(* (_make_request), the pacing delay (_delay), the search pipeline          *)
(* (search_jobs, with its per-site parsers and its fallback envelope), the  *)
(* proxy self-test (test_proxy) and the proxy rotation demo                 *)
(* (_demo_proxy_rotation).                                                  *)
(*                                                                          *)
(* One invocation runs at a time (the code is synchronous).  An invocation  *)
(* is cut at its blocking points: the pacing sleep and each HTTP GET.       *)
(* Everything the code computes between two blocking points is part of the  *)
(* step that ends at the later one.                                         *)
(***************************************************************************)
EXTENDS Integers, Sequences, FiniteSets, TLC

VARIABLES
    pc,           \* "idle" | "delay" | "request" | "done"
    op,           \* "none" | "search_jobs" | "test_proxy" | "fetch"
    query,        \* search_jobs argument: a sequence of characters
    location,     \* search_jobs argument
    reqLimit,     \* the limit the caller gave to the tool
    limit,        \* the limit the tool hands to the scraper (clamped)
    site,         \* search_jobs argument
    url,          \* the url of the running _make_request
    max_retries,  \* the max_retries of the running _make_request
    attempt,      \* loop variable of _make_request
    log,          \* outcomes of the GETs of the latest _make_request, in order
    mr,           \* how the latest _make_request stands: running, returned, raised
    i,            \* loop variable of _demo_proxy_rotation
    results,      \* the results list of _demo_proxy_rotation
    gets,         \* HTTP GETs issued by this invocation so far
    fetches,      \* _make_request calls started by this invocation so far
    delays,       \* _delay calls completed by this invocation so far
    ret           \* how the invocation ended: nothing yet, a value, an exception

vars == <<pc, op, query, location, reqLimit, limit, site, url, max_retries,
          attempt, log, mr, i, results, gets, fetches, delays, ret>>

----------------------------------------------------------------------------
(* Bounds of the model *)

MaxLimit == 4          \* requested limits range over 0..MaxLimit (and one large value)
MaxCards == 3          \* matching containers in an enumerated response body
MaxRetriesBound == 3   \* max_retries of a direct _make_request call: 0..MaxRetriesBound

(* Program constants *)

DefaultMaxRetries == 2 \* _make_request(url, max_retries=2)
LimitFloor == 1        \* min(max(limit, 1), 20)
LimitCeiling == 20     \* min(max(limit, 1), 20)
DemoIterationCap == 10 \* range(min(iterations, 10))
DemoCatalogSize == 5   \* the number of records _get_demo_jobs builds

Min(a, b) == IF a < b THEN a ELSE b
Max(a, b) == IF a > b THEN a ELSE b

----------------------------------------------------------------------------
(* Characters and strings.  A query is a sequence of characters, so that    *)
(* str.title() and substring tests are computed and not assumed.            *)

Letters == {"a", "b", "A", "B"}
IsAlpha(c) == c \in Letters
Upper(c) == CASE c = "a" -> "A" [] c = "b" -> "B" [] OTHER -> c
Lower(c) == CASE c = "A" -> "a" [] c = "B" -> "b" [] OTHER -> c

\* str.title(): the first cased character of every run of letters is
\* upper-cased, the other letters are lower-cased, the rest is unchanged.
title(s) ==
    [k \in 1..Len(s) |->
        IF IsAlpha(s[k])
        THEN IF k = 1 \/ ~IsAlpha(s[k-1]) THEN Upper(s[k]) ELSE Lower(s[k])
        ELSE s[k]]

\* Python's `sub in s` for strings.
Contains(s, sub) ==
    \E k \in 0..(Len(s) - Len(sub)) :
        \A j \in 1..Len(sub) : s[k + j] = sub[j]

Queries == { <<"a">>, <<"A">>, <<"a", "B">>, <<"A", " ", "b">> }
Locations == {"", "london"}

----------------------------------------------------------------------------
(* SITE_CONFIGS *)

DemoSite == "httpbin-demo"

\* The keys of SITE_CONFIGS in the order the dict lists them.
SITE_KEYS == <<"reed", "cwjobs", "totaljobs", DemoSite>>

SITE_CONFIGS ==
    ("reed"      :> [name |-> "Reed.co.uk",   base_url |-> "https://www.reed.co.uk"]) @@
    ("cwjobs"    :> [name |-> "CWJobs",       base_url |-> "https://www.cwjobs.co.uk"]) @@
    ("totaljobs" :> [name |-> "Totaljobs",    base_url |-> "https://www.totaljobs.com"]) @@
    (DemoSite    :> [name |-> "HTTPBin Demo", base_url |-> "http://httpbin.org"])

\* The registered identifiers that are job boards.
JobSites == DOMAIN SITE_CONFIGS \ {DemoSite}

\* Identifiers a caller may pass that are not registered.
UnknownSites == {"indeed", ""}

IpUrl == "http://httpbin.org/ip"

\* _build_search_url: only the host the request goes to is kept.
build_search_url(config) == config.base_url

----------------------------------------------------------------------------
(* What one HTTP GET can produce: a transport exception or a response.      *)

None == "None"

Statuses == {200, 301, 302, 403, 404, 500}

\* A matching container of a results page: the text of the sub-element the
\* parsers look for, or None when the container has no such sub-element.
Untitled == [title |-> None,       company |-> None,   location |-> None, salary |-> None]
TitledNA == [title |-> "N/A",      company |-> "Acme", location |-> None, salary |-> None]
Titled   == [title |-> "Engineer", company |-> "Acme", location |-> "Leeds", salary |-> None]
Cards == {Untitled, TitledNA, Titled}

RECURSIVE SeqsUpTo(_, _)
SeqsUpTo(S, n) ==
    IF n = 0 THEN { <<>> }
    ELSE LET shorter == SeqsUpTo(S, n - 1)
         IN  shorter \cup { Append(q, x) : q \in shorter, x \in S }

\* A page with more titled containers than twice the largest limit.
LongBody == [k \in 1..(2 * LimitCeiling + 1) |-> Titled]

Bodies == SeqsUpTo(Cards, MaxCards) \cup {LongBody}

JsonKinds == {"origin", "no_origin", "not_json"}

TransportError == "ConnectionError"

Exc(msg) == [kind |-> "exc", status |-> 0, cards |-> <<>>, json |-> "not_json", exc |-> msg]
Resp(st, cs, js) == [kind |-> "response", status |-> st, cards |-> cs, json |-> js, exc |-> ""]

\* session.get(url, ...): the IP echo endpoint answers with a small body that
\* may or may not be JSON; a job board answers with markup.
Outcomes(u) ==
    {Exc(TransportError)} \cup
    (IF u = IpUrl
     THEN { Resp(st, <<>>, js) : st \in Statuses, js \in JsonKinds }
     ELSE { Resp(200, cs, "not_json") : cs \in Bodies } \cup
          { Resp(st, <<>>, "not_json") : st \in Statuses \ {200} })

----------------------------------------------------------------------------
(* _make_request: what the loop body does with the outcome of one GET.      *)

\* An outcome after which _make_request may try again.
Retryable(o) == o.kind = "exc" \/ o.status = 403

\* Variant: a 403 is retried on the last attempt too, so that the loop ends
\* and the statement after it raises.
make_request_step_403_never_returned(att, maxr, o) ==
    IF o.kind = "exc"
    THEN IF att < maxr - 1
         THEN [next |-> "retry",  value |-> o]
         ELSE [next |-> "raise",  value |-> o]
    ELSE IF o.status \in {200, 301, 302}
         THEN [next |-> "return", value |-> o]
         ELSE IF o.status = 403
              THEN [next |-> "retry",  value |-> o]
              ELSE [next |-> "return", value |-> o]

\* Variant: every status outside [200, 301, 302] is retried, not only 403.
make_request_step_retries_errors(att, maxr, o) ==
    IF o.kind = "exc"
    THEN IF att < maxr - 1
         THEN [next |-> "retry",  value |-> o]
         ELSE [next |-> "raise",  value |-> o]
    ELSE IF o.status \in {200, 301, 302}
         THEN [next |-> "return", value |-> o]
         ELSE IF att < maxr - 1
              THEN [next |-> "retry",  value |-> o]
              ELSE [next |-> "return", value |-> o]

make_request_step(att, maxr, o) ==
    IF o.kind = "exc"
    THEN IF att < maxr - 1
         THEN [next |-> "retry",  value |-> o]
         ELSE [next |-> "raise",  value |-> o]
    ELSE IF o.status \in {200, 301, 302}
         THEN [next |-> "return", value |-> o]
         ELSE IF o.status = 403 /\ att < maxr - 1
              THEN [next |-> "retry",  value |-> o]
              ELSE [next |-> "return", value |-> o]

\* The statement after the loop.
MaxRetriesExceeded == [next |-> "raise", value |-> Exc("Max retries exceeded")]

----------------------------------------------------------------------------
(* The per-site parsers.  `cards` is the sequence of the containers of the  *)
(* page that the site's selector matches, in document order.                *)

\* soup.find_all(..., limit=n): the first n matches; limit=0 means no limit.
find_all(cards, n) ==
    IF n = 0 THEN cards ELSE SubSeq(cards, 1, Min(Len(cards), n))

\* seq[:n] for n >= 0.
Slice(seq, n) == SubSeq(seq, 1, Min(Len(seq), n))

\* elem.get_text(strip=True) if elem else default
TextOr(elem, default) == IF elem = None THEN default ELSE elem

reed_record(card) ==
    [title    |-> TextOr(card.title, "N/A"),
     company  |-> TextOr(card.company, "N/A"),
     location |-> TextOr(card.location, "N/A"),
     salary   |-> TextOr(card.salary, "Not specified")]

\* Variant: the candidates are not cut to the limit.
parse_reed_uncut(cards, lim) ==
    LET job_cards == find_all(cards, lim * 2)
        kept == SelectSeq(job_cards,
                          LAMBDA card : TextOr(card.title, "N/A") # "N/A")
    IN  [k \in 1..Len(kept) |-> reed_record(kept[k])]

parse_reed(cards, lim) ==
    LET job_cards == find_all(cards, lim * 2)
        kept == SelectSeq(Slice(job_cards, lim),
                          LAMBDA card : TextOr(card.title, "N/A") # "N/A")
    IN  [k \in 1..Len(kept) |-> reed_record(kept[k])]

short_record(card) ==
    [title    |-> card.title,
     company  |-> TextOr(card.company, "N/A"),
     location |-> TextOr(card.location, "N/A")]

parse_cwjobs(cards, lim) ==
    LET job_cards == find_all(cards, lim * 2)
        kept == SelectSeq(Slice(job_cards, lim), LAMBDA card : card.title # None)
    IN  [k \in 1..Len(kept) |-> short_record(kept[k])]

parse_totaljobs(cards, lim) ==
    LET job_cards == find_all(cards, lim * 2)
        kept == SelectSeq(Slice(job_cards, lim), LAMBDA card : card.title # None)
    IN  [k \in 1..Len(kept) |-> short_record(kept[k])]

parse_jobs(cards, s, lim) ==
    CASE s = "reed"      -> parse_reed(cards, lim)
      [] s = "cwjobs"    -> parse_cwjobs(cards, lim)
      [] s = "totaljobs" -> parse_totaljobs(cards, lim)
      [] OTHER           -> <<>>

----------------------------------------------------------------------------
(* The fallback records and the result envelopes.                           *)

\* Variant: the titles are built from the query as typed.
get_demo_jobs_as_typed(q, lim) ==
    LET jobs ==
          << [title    |-> <<"S", "e", "n", "i", "o", "r", " ">> \o q,
              company  |-> "Tech Solutions Ltd",
              location |-> "London", salary |-> "60k-80k"],
             [title    |-> q \o <<" ", "D", "e", "v", "e", "l", "o", "p", "e", "r">>,
              company  |-> "Digital Innovations",
              location |-> "Manchester", salary |-> "50k-70k"],
             [title    |-> <<"L", "e", "a", "d", " ">> \o q,
              company  |-> "FinTech Corp",
              location |-> "Edinburgh", salary |-> "70k-90k"],
             [title    |-> <<"J", "u", "n", "i", "o", "r", " ">> \o q,
              company  |-> "StartUp Hub",
              location |-> "Bristol", salary |-> "35k-45k"],
             [title    |-> <<"P", "r", "i", "n", "c", "i", "p", "a", "l", " ">> \o q,
              company  |-> "Enterprise Co",
              location |-> "Birmingham", salary |-> "80k-100k"] >>
    IN  Slice(jobs, lim)

get_demo_jobs(q, lim) ==
    LET t == title(q)
        jobs ==
          << [title    |-> <<"S", "e", "n", "i", "o", "r", " ">> \o t,
              company  |-> "Tech Solutions Ltd",
              location |-> "London", salary |-> "60k-80k"],
             [title    |-> t \o <<" ", "D", "e", "v", "e", "l", "o", "p", "e", "r">>,
              company  |-> "Digital Innovations",
              location |-> "Manchester", salary |-> "50k-70k"],
             [title    |-> <<"L", "e", "a", "d", " ">> \o t,
              company  |-> "FinTech Corp",
              location |-> "Edinburgh", salary |-> "70k-90k"],
             [title    |-> <<"J", "u", "n", "i", "o", "r", " ">> \o t,
              company  |-> "StartUp Hub",
              location |-> "Bristol", salary |-> "35k-45k"],
             [title    |-> <<"P", "r", "i", "n", "c", "i", "p", "a", "l", " ">> \o t,
              company  |-> "Enterprise Co",
              location |-> "Birmingham", salary |-> "80k-100k"] >>
    IN  Slice(jobs, lim)

blocked_response(q, loc, lim, s, soft) ==
    [success   |-> FALSE,
     site      |-> s,
     error     |-> IF ~soft THEN "Site blocked request" ELSE "Could not parse jobs",
     query     |-> q,
     location  |-> loc,
     tip       |-> "Try a different site (reed, cwjobs, totaljobs) or use httpbin-demo",
     demo_data |-> get_demo_jobs(q, lim),
     message   |-> "Showing demo data"]

\* Variant: every key of SITE_CONFIGS is listed.
unknown_site_response_all_keys(s) ==
    [success         |-> FALSE,
     error           |-> <<"Unknown site: ", s>>,
     available_sites |-> SITE_KEYS,
     tip             |-> "Try 'reed' for best results"]

unknown_site_response(s) ==
    [success         |-> FALSE,
     error           |-> <<"Unknown site: ", s>>,
     available_sites |-> SelectSeq(SITE_KEYS, LAMBDA k : k # DemoSite),
     tip             |-> "Try 'reed' for best results"]

found_response(q, loc, s, jobs) ==
    [success     |-> TRUE,
     site        |-> SITE_CONFIGS[s].name,
     query       |-> q,
     location    |-> IF loc # "" THEN loc ELSE "UK-wide",
     total_found |-> Len(jobs),
     jobs        |-> jobs,
     message     |-> <<"Retrieved from ", SITE_CONFIGS[s].name, " via Thordata proxies">>]

\* How an invocation ends.
NotYet == [state |-> "none", value |-> None]
Returned(v) == [state |-> "returned", value |-> v]
Raised(e) == [state |-> "raised", value |-> e]

\* Variant: an empty parse is reported as a success.
search_jobs_after_request_empty_ok(end, q, loc, lim, s) ==
    IF end.next = "raise"
    THEN Returned([success |-> FALSE, error |-> end.value.exc, site |-> s])
    ELSE LET response == end.value IN
         IF response.status # 200
         THEN Returned(blocked_response(q, loc, lim, s, FALSE))
         ELSE Returned(found_response(q, loc, s, parse_jobs(response.cards, s, lim)))

\* Variant: without the try/except around the pipeline.
search_jobs_after_request_uncaught(end, q, loc, lim, s) ==
    IF end.next = "raise"
    THEN Raised(end.value)
    ELSE LET response == end.value IN
         IF response.status # 200
         THEN Returned(blocked_response(q, loc, lim, s, FALSE))
         ELSE LET jobs == parse_jobs(response.cards, s, lim) IN
              IF jobs # <<>>
              THEN Returned(found_response(q, loc, s, jobs))
              ELSE Returned(blocked_response(q, loc, lim, s, TRUE))

\* search_jobs on a job board, from the return of _make_request on:
\* `end` is how _make_request ended.
search_jobs_after_request(end, q, loc, lim, s) ==
    IF end.next = "raise"
    THEN Returned([success |-> FALSE, error |-> end.value.exc, site |-> s])
    ELSE LET response == end.value IN
         IF response.status = 403
         THEN Returned(blocked_response(q, loc, lim, s, FALSE))
         ELSE IF response.status # 200
         THEN Returned(blocked_response(q, loc, lim, s, FALSE))
         ELSE LET jobs == parse_jobs(response.cards, s, lim) IN
              IF jobs # <<>>
              THEN Returned(found_response(q, loc, s, jobs))
              ELSE Returned(blocked_response(q, loc, lim, s, TRUE))

\* test_proxy, from the return of _make_request on.
test_proxy_after_request(end) ==
    IF end.next = "raise"
    THEN Returned([success |-> FALSE, error |-> end.value.exc])
    ELSE LET response == end.value IN
         IF response.status = 200
         THEN IF response.json = "not_json"
              THEN Returned([success |-> FALSE, error |-> "JSONDecodeError"])
              ELSE Returned([success      |-> TRUE,
                             proxy_ip     |-> IF response.json = "origin"
                                              THEN "1.2.3.4" ELSE "Unknown",
                             proxy_server |-> "THORDATA_PROXY_SERVER",
                             message      |-> "Thordata proxy is working!"])
         ELSE Returned([success  |-> FALSE,
                        error    |-> <<"HTTP ", response.status>>,
                        response |-> response.json])

\* One pass of the loop of _demo_proxy_rotation, from the return of
\* _make_request on: the entry appended to results.
demo_entry(n, end) ==
    IF end.next = "raise"
    THEN [request_number |-> n + 1, error |-> end.value.exc]
    ELSE IF end.value.json = "not_json"
         THEN [request_number |-> n + 1, error |-> "JSONDecodeError"]
         ELSE [request_number |-> n + 1,
               proxy_ip  |-> IF end.value.json = "origin" THEN "1.2.3.4" ELSE "Unknown",
               timestamp |-> "HH:MM:SS"]

demo_response(res) ==
    [success   |-> TRUE,
     demo_mode |-> "proxy_rotation",
     requests  |-> res,
     message   |-> "Thordata rotates IPs automatically!"]

\* Variant: one pass too many.
demo_iterations_inclusive(iterations) == Min(iterations, DemoIterationCap) + 1

\* range(min(iterations, 10))
demo_iterations(iterations) == Min(iterations, DemoIterationCap)

\* The limit the search_jobs tool hands to the scraper.
clamp_limit(n) == Min(Max(n, LimitFloor), LimitCeiling)

----------------------------------------------------------------------------
(* The arguments the operations are called with.                            *)

RequestedLimits == (0..MaxLimit) \cup {DemoCatalogSize, LimitCeiling, LimitCeiling + 1}

\* The rotation demo reads only the limit; it is called with the small limits.
SearchArgs ==
    { [query |-> q, location |-> loc, limit |-> n, site |-> s] :
        q \in Queries, loc \in Locations, n \in RequestedLimits,
        s \in JobSites \cup UnknownSites }
    \cup
    { [query |-> <<"a">>, location |-> "", limit |-> n, site |-> DemoSite] :
        n \in 0..MaxLimit }

FetchUrls == {IpUrl, SITE_CONFIGS["reed"].base_url}

----------------------------------------------------------------------------
(* The state machine.                                                       *)

Idle == [next |-> "none", value |-> None]
Running == [next |-> "running", value |-> None]

Init ==
    /\ pc = "idle"
    /\ op = "none"
    /\ query = <<>>
    /\ location = ""
    /\ reqLimit = 0
    /\ limit = 0
    /\ site = ""
    /\ url = ""
    /\ max_retries = 0
    /\ attempt = 0
    /\ log = <<>>
    /\ mr = Idle
    /\ i = 0
    /\ results = <<>>
    /\ gets = 0
    /\ fetches = 0
    /\ delays = 0
    /\ ret = NotYet

\* Entering _make_request(u, m).
StartRequest(u, m) ==
    /\ pc' = "request"
    /\ url' = u
    /\ max_retries' = m
    /\ attempt' = 0
    /\ log' = <<>>
    /\ mr' = Running
    /\ fetches' = fetches + 1

\* The search_jobs tool: clamps the limit and calls scraper.search_jobs, which
\* runs up to its first blocking point.
CallSearchJobs(a) ==
    /\ pc = "idle"
    /\ op' = "search_jobs"
    /\ query' = a.query
    /\ location' = a.location
    /\ reqLimit' = a.limit
    /\ limit' = clamp_limit(a.limit)
    /\ site' = a.site
    /\ i' = 0
    /\ results' = <<>>
    /\ UNCHANGED <<gets, delays>>
    /\ IF a.site = DemoSite
       THEN IF demo_iterations(limit') > 0
            THEN /\ StartRequest(IpUrl, DefaultMaxRetries)
                 /\ ret' = NotYet
            ELSE /\ pc' = "done"
                 /\ ret' = Returned(demo_response(<<>>))
                 /\ UNCHANGED <<url, max_retries, attempt, log, mr, fetches>>
       ELSE IF a.site \notin DOMAIN SITE_CONFIGS
            THEN /\ pc' = "done"
                 /\ ret' = Returned(unknown_site_response(a.site))
                 /\ UNCHANGED <<url, max_retries, attempt, log, mr, fetches>>
            ELSE /\ pc' = "delay"
                 /\ url' = build_search_url(SITE_CONFIGS[a.site])
                 /\ ret' = NotYet
                 /\ UNCHANGED <<max_retries, attempt, log, mr, fetches>>

\* Variant: search_jobs enters _make_request(url) without the pacing delay.
Delay_skipped ==
    /\ pc = "delay"
    /\ StartRequest(url, DefaultMaxRetries)
    /\ UNCHANGED <<op, query, location, reqLimit, limit, site, i, results, gets,
                   delays, ret>>

\* self._delay("normal") returns; search_jobs enters _make_request(url).
Delay ==
    /\ pc = "delay"
    /\ delays' = delays + 1
    /\ StartRequest(url, DefaultMaxRetries)
    /\ UNCHANGED <<op, query, location, reqLimit, limit, site, i, results, gets, ret>>

\* The test_proxy tool, up to its first blocking point.
CallTestProxy ==
    /\ pc = "idle"
    /\ op' = "test_proxy"
    /\ StartRequest(IpUrl, DefaultMaxRetries)
    /\ UNCHANGED <<query, location, reqLimit, limit, site, i, results, gets, delays, ret>>

\* A direct call of _make_request(u, m).
CallMakeRequest(u, m) ==
    /\ pc = "idle"
    /\ op' = "fetch"
    /\ StartRequest(u, m)
    /\ UNCHANGED <<query, location, reqLimit, limit, site, i, results, gets, delays, ret>>

\* _make_request has ended as `end` with the GETs `lg`: the caller runs on to
\* its next blocking point or to its end.
Finish(end, lg) ==
    /\ UNCHANGED <<op, query, location, reqLimit, limit, site, delays>>
    /\ CASE op = "fetch" ->
              /\ pc' = "done"
              /\ ret' = IF end.next = "raise" THEN Raised(end.value) ELSE Returned(end.value)
              /\ log' = lg /\ mr' = end
              /\ UNCHANGED <<url, max_retries, attempt, i, results, fetches>>
         [] op = "test_proxy" ->
              /\ pc' = "done"
              /\ ret' = test_proxy_after_request(end)
              /\ log' = lg /\ mr' = end
              /\ UNCHANGED <<url, max_retries, attempt, i, results, fetches>>
         [] op = "search_jobs" /\ site # DemoSite ->
              /\ pc' = "done"
              /\ ret' = search_jobs_after_request(end, query, location, limit, site)
              /\ log' = lg /\ mr' = end
              /\ UNCHANGED <<url, max_retries, attempt, i, results, fetches>>
         [] op = "search_jobs" /\ site = DemoSite ->
              /\ results' = Append(results, demo_entry(i, end))
              /\ i' = i + 1
              /\ IF i + 1 < demo_iterations(limit)
                 THEN /\ StartRequest(IpUrl, DefaultMaxRetries)
                      /\ ret' = NotYet
                 ELSE /\ pc' = "done"
                      /\ ret' = Returned(demo_response(results'))
                      /\ log' = lg /\ mr' = end
                      /\ UNCHANGED <<url, max_retries, attempt, fetches>>

\* One pass of the loop of _make_request: session.get answers with o.
Get(o) ==
    /\ pc = "request"
    /\ attempt < max_retries
    /\ gets' = gets + 1
    /\ LET step == make_request_step(attempt, max_retries, o)
           lg == Append(log, o)
       IN  IF step.next = "retry"
           THEN /\ attempt' = attempt + 1
                /\ log' = lg
                /\ UNCHANGED <<pc, op, query, location, reqLimit, limit, site, url,
                               max_retries, mr, i, results, fetches, delays, ret>>
           ELSE Finish(step, lg)

\* The loop of _make_request is over without a return or a raise.
LoopExit ==
    /\ pc = "request"
    /\ attempt >= max_retries
    /\ UNCHANGED gets
    /\ Finish(MaxRetriesExceeded, log)

\* The caller takes the result; the scraper is ready for the next call.
Return ==
    /\ pc = "done"
    /\ pc' = "idle"
    /\ op' = "none"
    /\ query' = <<>>
    /\ location' = ""
    /\ reqLimit' = 0
    /\ limit' = 0
    /\ site' = ""
    /\ url' = ""
    /\ max_retries' = 0
    /\ attempt' = 0
    /\ log' = <<>>
    /\ mr' = Idle
    /\ i' = 0
    /\ results' = <<>>
    /\ gets' = 0
    /\ fetches' = 0
    /\ delays' = 0
    /\ ret' = NotYet

Next ==
    \/ \E a \in SearchArgs : CallSearchJobs(a)
    \/ Delay
    \/ CallTestProxy
    \/ \E u \in FetchUrls, m \in 0..MaxRetriesBound : CallMakeRequest(u, m)
    \/ \E o \in Outcomes(url) : Get(o)
    \/ LoopExit
    \/ Return

Spec == Init /\ [][Next]_vars

----------------------------------------------------------------------------
(* Properties of _make_request.                                             *)

Last(seq) == seq[Len(seq)]

\* The latest _make_request is over and each of its max_retries >= 1
\* attempts ended in a transport exception or a 403.
AllAttemptsRetryable ==
    /\ mr.next \in {"return", "raise"}
    /\ max_retries >= 1
    /\ Len(log) = max_retries
    /\ \A k \in 1..Len(log) : Retryable(log[k])

\* C1: one call of _make_request issues at most max_retries GETs; every GET
\* but the last of the call ended in a transport exception or a 403; a
\* response whose status is not 403 is the last GET and is what the call
\* returns.
C1_BoundedRetry ==
    /\ Len(log) <= max_retries
    /\ (fetches <= 1 => gets = Len(log))
    /\ \A k \in 1..(Len(log) - 1) : Retryable(log[k])
    /\ (log # <<>> /\ ~Retryable(Last(log)))
          => mr = [next |-> "return", value |-> Last(log)]

C1_Witness ==
    /\ op = "fetch"
    /\ pc = "done"
    /\ max_retries = 3
    /\ Len(log) = 3
    /\ log[1].kind = "exc"
    /\ log[2].kind = "response" /\ log[2].status = 403
    /\ log[3].kind = "response" /\ log[3].status = 500
    /\ ret = Returned(log[3])

\* C2 as stated: when every attempt ended in a transport exception or a 403,
\* the call raises and returns no response.
C2_AlwaysRaises ==
    AllAttemptsRetryable => mr.next = "raise"

\* C2 as amended: when every attempt ended in a transport exception or a 403,
\* the call raises the exception of the last attempt if that attempt ended in
\* an exception, and returns the 403 response if it ended in a 403.
C2_RaisesOrReturns403 ==
    AllAttemptsRetryable =>
        /\ Last(log).kind = "exc" => mr = [next |-> "raise", value |-> Last(log)]
        /\ Last(log).kind = "response" => mr = [next |-> "return", value |-> Last(log)]

C2_Witness ==
    /\ AllAttemptsRetryable
    /\ op = "fetch"
    /\ max_retries = 2
    /\ log[1].kind = "exc"
    /\ log[2].kind = "response" /\ log[2].status = 403
    /\ ret = Returned(log[2])

----------------------------------------------------------------------------
(* Properties of search_jobs and test_proxy.                                *)

\* A search_jobs call on a job board has returned.
JobSearchReturned ==
    /\ pc = "done"
    /\ op = "search_jobs"
    /\ site \in JobSites
    /\ ret.state = "returned"

Elems(seq) == { seq[k] : k \in 1..Len(seq) }

\* C3: a successful search on a job board, called with a limit in 1..50,
\* returns at most that many jobs, and at most as many as the clamped limit.
C3_JobsWithinLimit ==
    (JobSearchReturned /\ reqLimit \in 1..50 /\ ret.value.success)
        => /\ Len(ret.value.jobs) <= reqLimit
           /\ Len(ret.value.jobs) <= limit

\* The page holds more titled containers than the limit, and the limit was clamped.
C3_Witness ==
    /\ JobSearchReturned
    /\ ret.value.success
    /\ reqLimit = LimitCeiling + 1
    /\ Len(mr.value.cards) > 2 * limit
    /\ Len(ret.value.jobs) = limit

\* C4: on every source but httpbin-demo, a successful result carries at least
\* one job, every job comes from a container of the response body, and there
\* is no demo_data; a result with demo_data is a failure.
C4_SuccessIsReal ==
    (pc = "done" /\ op = "search_jobs" /\ site # DemoSite /\ ret.state = "returned")
        => /\ ret.value.success =>
                /\ "jobs" \in DOMAIN ret.value
                /\ Len(ret.value.jobs) >= 1
                /\ \A k \in 1..Len(ret.value.jobs) :
                       \E c \in Elems(mr.value.cards) : ret.value.jobs[k].title = c.title
                /\ "demo_data" \notin DOMAIN ret.value
           /\ "demo_data" \in DOMAIN ret.value => ~ret.value.success

C4_Witness ==
    /\ JobSearchReturned
    /\ ret.value.success
    /\ Len(ret.value.jobs) = 2
    /\ Len(mr.value.cards) = 3

\* The response handed back is blocked, or nothing was extracted from a 200.
BlockedOrEmpty ==
    /\ JobSearchReturned
    /\ mr.next = "return"
    /\ \/ mr.value.status # 200
       \/ parse_jobs(mr.value.cards, site, limit) = <<>>

\* The failure envelope with its synthetic records cut to the limit.
FallbackEnvelope ==
    /\ ~ret.value.success
    /\ "demo_data" \in DOMAIN ret.value
    /\ Len(ret.value.demo_data) = Min(limit, DemoCatalogSize)
    /\ (limit = 5 => Len(ret.value.demo_data) = 5)

\* C5 as stated: a blocked response or an empty extraction gives a failure
\* envelope with synthetic records cut to the limit, each title containing
\* the query.
C5_TitlesContainQuery ==
    BlockedOrEmpty =>
        /\ FallbackEnvelope
        /\ \A k \in 1..Len(ret.value.demo_data) :
               Contains(ret.value.demo_data[k].title, query)

\* C5 as amended: each title contains the title-cased query.
C5_TitlesContainTitleCasedQuery ==
    BlockedOrEmpty =>
        /\ FallbackEnvelope
        /\ \A k \in 1..Len(ret.value.demo_data) :
               Contains(ret.value.demo_data[k].title, title(query))

C5_Witness ==
    /\ BlockedOrEmpty
    /\ mr.value.status = 403
    /\ limit = 5
    /\ query = <<"a", "B">>
    /\ Len(ret.value.demo_data) = 5

\* A search_jobs call with an identifier that is not registered has returned.
UnknownSearchReturned ==
    /\ pc = "done"
    /\ op = "search_jobs"
    /\ site \notin DOMAIN SITE_CONFIGS
    /\ ret.state = "returned"

\* C6 as stated: an unknown identifier gives a failure that lists every key of
\* SITE_CONFIGS, with no delay and no request.
C6_ListsAllKeys ==
    UnknownSearchReturned =>
        /\ ~ret.value.success
        /\ Elems(ret.value.available_sites) = DOMAIN SITE_CONFIGS
        /\ delays = 0 /\ fetches = 0 /\ gets = 0

\* C6 as amended: the failure lists every key of SITE_CONFIGS but httpbin-demo.
C6_ListsJobSites ==
    UnknownSearchReturned =>
        /\ ~ret.value.success
        /\ Elems(ret.value.available_sites) = DOMAIN SITE_CONFIGS \ {DemoSite}
        /\ delays = 0 /\ fetches = 0 /\ gets = 0

C6_Witness ==
    /\ UnknownSearchReturned
    /\ site = "indeed"
    /\ ret.value.available_sites = <<"reed", "cwjobs", "totaljobs">>

\* C7: search_jobs and test_proxy never end with an exception; they end with
\* an envelope that has a success flag.
C7_AlwaysAnEnvelope ==
    (op \in {"search_jobs", "test_proxy"})
        => /\ ret.state # "raised"
           /\ pc = "done" => /\ ret.state = "returned"
                             /\ "success" \in DOMAIN ret.value
                             /\ ret.value.success \in BOOLEAN

\* Every attempt of a job search ended in a transport exception.
C7_Witness ==
    /\ JobSearchReturned
    /\ mr.next = "raise"
    /\ Len(log) = DefaultMaxRetries
    /\ \A k \in 1..Len(log) : log[k].kind = "exc"
    /\ ~ret.value.success

\* C8: when every attempt of a job search ended in a transport exception, the
\* envelope is a failure that carries a tip.
C8_ExhaustedHasTip ==
    (JobSearchReturned /\ mr.next = "raise"
       /\ \A k \in 1..Len(log) : log[k].kind = "exc")
        => /\ ~ret.value.success
           /\ "tip" \in DOMAIN ret.value

C10_DelayBeforeFetch ==
    /\ (op = "search_jobs" /\ site \in JobSites)
          => \/ pc = "delay" /\ delays = 0 /\ gets = 0 /\ fetches = 0
             \/ pc # "delay" /\ delays = 1
    /\ op = "test_proxy" => /\ delays = 0
                            /\ pc = "done" => gets >= 1

C10_Witness ==
    /\ op = "search_jobs"
    /\ site \in JobSites
    /\ gets = 1
    /\ delays = 1
    /\ pc = "request"

----------------------------------------------------------------------------
(* Properties of the heuristic extraction.                                  *)

\* The title test of the parser of site s: _parse_reed keeps a container
\* whose title text is not "N/A", the two others one that has a title element.
has_title(card, s) ==
    IF s = "reed" THEN TextOr(card.title, "N/A") # "N/A" ELSE card.title # None

\* The first min(limit, k) titled containers among the first 2*limit
\* candidates, k being the number of titled ones among them.
TitledWithinWindow(cards, s, lim) ==
    Slice(SelectSeq(find_all(cards, lim * 2), LAMBDA card : has_title(card, s)), lim)

\* C11: from a 200 response the parsers return, in document order, one record
\* for each of the first min(limit, k) titled containers among the first
\* 2*limit candidates: the cut to limit comes after the title test, so
\* untitled containers that come first do not reduce the count.
C11_CutAfterTitleCheck ==
    (JobSearchReturned /\ mr.next = "return" /\ mr.value.status = 200)
        => LET expected == TitledWithinWindow(mr.value.cards, site, limit)
               jobs == parse_jobs(mr.value.cards, site, limit)
           IN  /\ Len(jobs) = Len(expected)
               /\ \A k \in 1..Len(expected) : jobs[k].title = expected[k].title
               /\ expected # <<>> => /\ ret.value.success
                                     /\ ret.value.jobs = jobs
====
